---- MODULE Spec2Model ----
(***************************************************************************)
(* Caption stabilisation and narration scheduling of the three camera      *)
(* pages of visionapp:                                                     *)
(*   "scene"  - src/app/page.tsx            (Vision Narrator)              *)
(*   "mvp"    - src/unnamed/part_000:63-317 (Vision Narrator MVP)          *)
(*   "solver" - src/app/api/analyze/route.ts:56-283 (Question Solver)      *)
(* Strings are sequences of one-character strings, so that normalizeText   *)
(* and similarity are computed character by character as the code does.    *)
(* Times are milliseconds.                                                 *)
(***************************************************************************)
EXTENDS Integers, Sequences, FiniteSets, TLC

\* ------------------------------------------------------------------------
\* Text Normalizer and Similarity Scorer
\* ------------------------------------------------------------------------

LowerChars ==
  <<"a","b","c","d","e","f","g","h","i","j","k","l","m",
    "n","o","p","q","r","s","t","u","v","w","x","y","z">>

UpperChars ==
  <<"A","B","C","D","E","F","G","H","I","J","K","L","M",
    "N","O","P","Q","R","S","T","U","V","W","X","Y","Z">>

DigitChars == {"0","1","2","3","4","5","6","7","8","9"}

\* the characters the regular expression class \s matches (those used here)
SpaceChars == {" ", "\t", "\n"}

Range(f) == {f[x] : x \in DOMAIN f}

\* String.prototype.toLowerCase, one character
ToLowerChar(c) ==
  IF \E k \in 1..26 : UpperChars[k] = c
    THEN LowerChars[CHOOSE k \in 1..26 : UpperChars[k] = c]
    ELSE c

toLowerCase(s) == [k \in 1..Len(s) |-> ToLowerChar(s[k])]

\* .replace(/[^a-z0-9\s]/g, " ")
StripPunct(s) ==
  [k \in 1..Len(s) |->
     IF s[k] \in Range(LowerChars) \cup DigitChars \cup SpaceChars
       THEN s[k] ELSE " "]

\* .replace(/\s+/g, " ") : every maximal run of whitespace becomes one space
RECURSIVE CollapseSpaces(_)
CollapseSpaces(s) ==
  IF s = <<>> THEN <<>>
  ELSE IF Head(s) \in SpaceChars
    THEN IF Len(s) > 1 /\ s[2] \in SpaceChars
           THEN CollapseSpaces(Tail(s))
           ELSE <<" ">> \o CollapseSpaces(Tail(s))
    ELSE <<Head(s)>> \o CollapseSpaces(Tail(s))

RECURSIVE TrimLeft(_)
TrimLeft(s) ==
  IF s # <<>> /\ Head(s) \in SpaceChars THEN TrimLeft(Tail(s)) ELSE s

RECURSIVE TrimRight(_)
TrimRight(s) ==
  IF s # <<>> /\ s[Len(s)] \in SpaceChars
    THEN TrimRight(SubSeq(s, 1, Len(s) - 1)) ELSE s

trim(s) == TrimRight(TrimLeft(s))

normalizeText(s) == trim(CollapseSpaces(StripPunct(toLowerCase(s))))

\* s.split(" ") : the pieces between single spaces, empty pieces included
RECURSIVE SplitAcc(_, _)
SplitAcc(s, cur) ==
  IF s = <<>> THEN <<cur>>
  ELSE IF Head(s) = " "
    THEN <<cur>> \o SplitAcc(Tail(s), <<>>)
    ELSE SplitAcc(Tail(s), Append(cur, Head(s)))

split(s) == SplitAcc(s, <<>>)

\* ------------------------------------------------------------------------
\* Configuration of the three pages
\* ------------------------------------------------------------------------

Variants == {"scene", "mvp", "solver"}

\* the pages that guard analyzeOnce with inFlightRef
Narrators == {"scene", "mvp"}

MIN_DISPLAY_MS(v) == IF v = "mvp" THEN 5500 ELSE 3000

MIN_SPEAK_GAP == 4000

FADE_MS == 200

DEFAULT_INTERVAL == 5000

SPEED_CONFIG == [calm |-> 4000, normal |-> 2500, fast |-> 1200]

SpeedModes == {"calm", "normal", "fast"}

\* the two <option> values of the Interval select
IntervalOptions == {5000, 7000}

\* ------------------------------------------------------------------------
\* Bounds of the model
\* ------------------------------------------------------------------------

\* Date.now() when the page is constructed (any value past the display window)
StartTime == 6000

\* the clock is observed for this long
Horizon == 6000

\* granularity of the clock
TickStep == 1000

\* the Update Gate on its own is observed for this long
GateHorizon == 11000

\* two instances side by side are observed for this long
TwinHorizon == 8000

\* length of the strings given to similarity when it is run on its own
MaxTextLen == 3

\* acquisition loops alive at the same time
MaxLoops == 2

\* onStart calls waiting for the camera
MaxPendingStarts == 1

\* operations of the speech checkboxes
MaxToggles == 1

\* presses of the Start button
MaxStarts == 2

MaxTime == StartTime + Horizon

\* ------------------------------------------------------------------------
\* Texts
\* ------------------------------------------------------------------------

EmptyText == <<>>

TapStart ==
  <<"T","a","p"," ","S","t","a","r","t"," ","t","o"," ","b","e","g","i","n",".">>

PointCamera ==
  <<"P","o","i","n","t"," ","t","h","e"," ","c","a","m","e","r","a"," ",
    "a","t"," ","a"," ","q","u","e","s","t","i","o","n",".">>

Looking == <<"L","o","o","k","i","n","g","U+2026">>

ReadingQuestion ==
  <<"R","e","a","d","i","n","g"," ","q","u","e","s","t","i","o","n","U+2026">>

Stopped == <<"S","t","o","p","p","e","d",".">>

RedCar ==
  <<"a"," ","r","e","d"," ","c","a","r"," ","i","s"," ","p","a","r","k","e","d">>

RedCarHere ==
  <<"a"," ","r","e","d"," ","c","a","r"," ","i","s"," ","p","a","r","k","e","d",
    " ","h","e","r","e">>

RedCarLoud ==
  <<"A"," ","r","e","d"," ","c","a","r",","," ","i","s"," ","P","A","R","K","E","D","!">>

DogRug ==
  <<"a"," ","d","o","g"," ","s","i","t","s"," ","o","n"," ","a"," ","r","u","g">>

DogRugCalmly == DogRug \o <<" ","c","a","l","m","l","y">>

\* twenty words
Words20 ==
  <<"a"," ","b"," ","c"," ","d"," ","e"," ","f"," ","g"," ","h"," ","i"," ","j",
    " ","k"," ","l"," ","m"," ","n"," ","o"," ","p"," ","q"," ","r"," ","s"," ","t">>

\* seventeen of them
Words17 == SubSeq(Words20, 1, 33)

\* the texts the description service answers with
Captions == {RedCar, RedCarHere}

\* the texts that reach the Update Gate when it is studied on its own
GateTexts ==
  {RedCar, RedCarHere, RedCarLoud, Words20, Words17, DogRug, DogRugCalmly}

\* the set of words without .filter(Boolean)
WordsUnfiltered(a) == Range(split(normalizeText(a)))

\* new Set(normalizeText(a).split(" ").filter(Boolean))
Words(a) == {w \in Range(split(normalizeText(a))) : w # <<>>}

\* Words, worked out once for the texts of the model
WordsOfText == [a \in Captions \cup GateTexts \cup {EmptyText} |-> Words(a)]

WordSet(a) == IF a \in DOMAIN WordsOfText THEN WordsOfText[a] ELSE Words(a)

\* the intersection counted against the words of a only
similarityOverFirst(a, b) ==
  LET A == WordSet(a)
      B == WordSet(b)
      i == Cardinality({w \in A : w \in B})
  IN IF A = {} \/ B = {}
       THEN [num |-> 0, den |-> 1]
       ELSE [num |-> i, den |-> Cardinality(A)]

\* similarity(a, b) as the exact fraction num/den (0/1 when a set is empty)
similarity(a, b) ==
  LET A == WordSet(a)
      B == WordSet(b)
      i == Cardinality({w \in A : w \in B})
  IN IF A = {} \/ B = {}
       THEN [num |-> 0, den |-> 1]
       ELSE [num |-> i, den |-> Cardinality(A) + Cardinality(B) - i]

\* SIMILARITY_IGNORE = 0.85, in hundredths
SIMILARITY_IGNORE == 85

\* sim > SIMILARITY_IGNORE
ExceedsIgnore(sim) == sim.num * 100 > SIMILARITY_IGNORE * sim.den

\* the value of error when no error is shown
Null == "null"

\* e.message of an exception raised by the browser (getUserMedia, fetch, json)
EnvMessage == "Failed to fetch"

\* e.message of the AbortError of an aborted fetch
AbortMessage == "The user aborted a request."

InitialText(v) == IF v = "solver" THEN PointCamera ELSE TapStart

StartText(v) == IF v = "solver" THEN ReadingQuestion ELSE Looking

StatusErrorText(v) == IF v = "scene" THEN "Vision error" ELSE "Vision API error"

\* ------------------------------------------------------------------------
\* State
\* ------------------------------------------------------------------------

VARIABLES
  variant,            \* which page this instance is
  now,                \* Date.now()
  runningRef,         \* runningRef.current
  inFlightRef,        \* inFlightRef.current (narrator pages)
  lastCaptionRef,     \* lastCaptionRef.current (narrator pages)
  lastUpdateTimeRef,  \* lastUpdateTimeRef.current
  lastSpeakTimeRef,   \* lastSpeakTimeRef.current (scene page)
  requestIdRef,       \* requestIdRef.current (solver page)
  abortRef,           \* id of the controller in abortRef.current, 0 for null
  caption,            \* the displayed caption / answer
  isRunning,          \* React state isRunning
  error,              \* React state error
  speak,              \* React state speak
  accessible,         \* React state accessible (scene page)
  speed,              \* React state speed (scene page)
  intervalMs,         \* React state intervalMs (mvp and solver pages)
  cameraOn,           \* video.srcObject holds a live stream
  pendingStarts,      \* onStart calls awaiting startCamera(), with their closures
  loops,              \* the loop() invocations, by slot
  fadeTimers,         \* pending setTimeout(..., 200) callbacks of applyCaption
  speechQueue,        \* utterances held by speechSynthesis, head is playing
  toggles,            \* how often a speech checkbox was operated (history)
  starts,             \* how often the Start button was pressed (history)
  signalHonoured,     \* whether fetch of this browser honours an AbortSignal
  fresh,              \* no caption reached the Update Gate in this session (history)
  ev,                 \* what the last handler did (history)
  acceptLog,          \* the last two acceptances, text and time (history)
  lastSpoken,         \* the text of the last utterance started (history)
  simA,               \* similarity(a, b): the argument a
  simB,               \* similarity(a, b): the argument b
  simValue,           \* the values similarity returned for them
  twin                \* a second instance of the page, fed the same captions

vars ==
  <<variant, now, runningRef, inFlightRef, lastCaptionRef, lastUpdateTimeRef,
    lastSpeakTimeRef, requestIdRef, abortRef, caption, isRunning, error, speak,
    accessible, speed, intervalMs, cameraOn, pendingStarts, loops, fadeTimers,
    speechQueue, toggles, starts, signalHonoured, fresh, ev, acceptLog,
    lastSpoken, simA, simB, simValue, twin>>

\* the arguments and results of the Similarity Scorer when it is run on its own
scorerVars == <<simA, simB, simValue>>

Slots == 1..MaxLoops

\* the values of the render a handler was created in
Closure ==
  [speak |-> speak,
   accessible |-> accessible,
   ms |-> IF variant = "scene" THEN SPEED_CONFIG[speed] ELSE intervalMs]

NoClosure == [speak |-> FALSE, accessible |-> FALSE, ms |-> 0]

\* a slot without a loop() invocation
NoLoop ==
  [pc |-> "none", wake |-> 0, began |-> 0, ctl |-> 0, aborted |-> FALSE,
   c |-> NoClosure]

\* loop() suspended in await sleep(ms), started at time t
Sleeping(c, t) ==
  [pc |-> "sleep", wake |-> t + c.ms, began |-> 0, ctl |-> 0, aborted |-> FALSE,
   c |-> c]

\* loop() suspended in analyzeOnce at await fetch(...), controller id ctl, in
\* the cycle that began at time t
Fetching(c, id, t) ==
  [pc |-> "fetch", wake |-> 0, began |-> t, ctl |-> id, aborted |-> FALSE,
   c |-> c]

\* what a handler did:
\*   cycle    analyzeOnce was called         sent    it issued a request
\*   skipped  it returned at the in-flight test
\*   failed   the remote call of a cycle failed
\*   resp     a response body arrived, tagged ctl, carrying text
\*   gate     the Update Gate was called with text; first: as the first call of
\*            the session; prevAt, prevText: the acceptance before the call
\*   acc      the Update Gate accepted        spoke   an utterance was started
\*   called   speakCaption was called        aborted  the await of an aborted
\*                                                   request rejected
\*   cut      speechSynthesis.cancel() ended an utterance that was playing
NoEvent ==
  [cycle |-> FALSE, sent |-> FALSE, skipped |-> FALSE, failed |-> FALSE,
   resp |-> FALSE, ctl |-> 0, gate |-> FALSE, first |-> FALSE, acc |-> FALSE,
   spoke |-> FALSE, text |-> EmptyText, prevText |-> EmptyText, prevAt |-> 0,
   called |-> FALSE, aborted |-> FALSE, cut |-> FALSE]

\* the requests a loop is still awaiting (headers or body)
Outstanding == {l \in Slots : loops[l].pc \in {"fetch", "json"} /\ ~loops[l].aborted}

ActiveLoops == {l \in Slots : loops[l].pc # "none"}

\* simValue before similarity was called on simA and simB
NoScore ==
  [done |-> FALSE, ab |-> [num |-> 0, den |-> 1], ba |-> [num |-> 0, den |-> 1],
   aa |-> [num |-> 0, den |-> 1]]

\* ------------------------------------------------------------------------
\* Speech and the Update Gate
\* ------------------------------------------------------------------------

\* the part of the state the gates read and write
GateState ==
  [lastCaption |-> lastCaptionRef, lastUpdate |-> lastUpdateTimeRef,
   lastSpeak |-> lastSpeakTimeRef, caption |-> caption,
   queue |-> speechQueue, timers |-> fadeTimers,
   acc |-> FALSE, spoke |-> FALSE]

\* speakCaption without the minimum gap test
speakCaptionNoGap(text, t, c, s) ==
  IF ~c.speak THEN s
  ELSE [s EXCEPT !.queue = <<text>>, !.lastSpeak = t, !.spoke = TRUE]

\* scene page: speakCaption(text), called at time t with the closure c
speakCaption(text, t, c, s) ==
  IF ~c.speak THEN s
  ELSE IF t - s.lastSpeak < MIN_SPEAK_GAP THEN s
  ELSE [s EXCEPT !.queue = <<text>>, !.lastSpeak = t, !.spoke = TRUE]

\* applyCaption remembering the text it received when the window rejects it
applyCaptionSceneReceived(newCaption, t, c, s) ==
  IF t - s.lastUpdate < MIN_DISPLAY_MS("scene")
    THEN [s EXCEPT !.lastCaption = newCaption]
  ELSE IF ExceedsIgnore(similarity(newCaption, s.lastCaption)) THEN s
  ELSE [s EXCEPT !.lastCaption = newCaption,
                 !.lastUpdate = t,
                 !.timers = @ \cup {[text |-> newCaption, due |-> t + FADE_MS, c |-> c]},
                 !.acc = TRUE]

\* scene page: applyCaption(newCaption)
applyCaptionScene(newCaption, t, c, s) ==
  IF t - s.lastUpdate < MIN_DISPLAY_MS("scene") THEN s
  ELSE IF ExceedsIgnore(similarity(newCaption, s.lastCaption)) THEN s
  ELSE [s EXCEPT !.lastCaption = newCaption,
                 !.lastUpdate = t,
                 !.timers = @ \cup {[text |-> newCaption, due |-> t + FADE_MS, c |-> c]},
                 !.acc = TRUE]

\* the callback showing the caption only where it is narrated
fadeCallbackNarrated(tm, t, s) ==
  IF tm.c.accessible
    THEN speakCaption(tm.text, t, tm.c, [s EXCEPT !.caption = tm.text])
    ELSE s

\* scene page: the callback of setTimeout in applyCaption
fadeCallback(tm, t, s) ==
  LET shown == [s EXCEPT !.caption = tm.text]
  IN IF tm.c.accessible THEN speakCaption(tm.text, t, tm.c, shown) ELSE shown

\* applyCaption with sim >= SIMILARITY_IGNORE as the test for "unchanged"
applyCaptionMvpGe(newCaption, t, c, s) ==
  LET sim == similarity(newCaption, s.lastCaption)
  IN IF t - s.lastUpdate < MIN_DISPLAY_MS("mvp") THEN s
     ELSE IF sim.num * 100 >= SIMILARITY_IGNORE * sim.den THEN s
     ELSE LET a == [s EXCEPT !.lastCaption = newCaption,
                             !.lastUpdate = t,
                             !.caption = newCaption,
                             !.acc = TRUE]
          IN IF c.speak THEN [a EXCEPT !.queue = <<newCaption>>, !.spoke = TRUE]
                        ELSE a

\* applyCaption speaking every caption it receives, before its tests
applyCaptionMvpSpeaksAll(newCaption, t, c, s) ==
  LET h == IF c.speak THEN [s EXCEPT !.queue = <<newCaption>>, !.spoke = TRUE]
                      ELSE s
  IN IF t - s.lastUpdate < MIN_DISPLAY_MS("mvp") THEN h
     ELSE IF ExceedsIgnore(similarity(newCaption, s.lastCaption)) THEN h
     ELSE [h EXCEPT !.lastCaption = newCaption,
                    !.lastUpdate = t,
                    !.caption = newCaption,
                    !.acc = TRUE]

\* mvp page: applyCaption(newCaption)
applyCaptionMvp(newCaption, t, c, s) ==
  IF t - s.lastUpdate < MIN_DISPLAY_MS("mvp") THEN s
  ELSE IF ExceedsIgnore(similarity(newCaption, s.lastCaption)) THEN s
  ELSE LET a == [s EXCEPT !.lastCaption = newCaption,
                          !.lastUpdate = t,
                          !.caption = newCaption,
                          !.acc = TRUE]
       IN IF c.speak THEN [a EXCEPT !.queue = <<newCaption>>, !.spoke = TRUE]
                     ELSE a

\* applyAnswer without the minimum display test
applyAnswerNoWindow(text, t, c, s) ==
  LET a == [s EXCEPT !.lastUpdate = t, !.caption = text, !.acc = TRUE]
  IN IF c.speak THEN [a EXCEPT !.queue = <<text>>, !.spoke = TRUE] ELSE a

\* applyAnswer speaking without speechSynthesis.cancel()
applyAnswerQueue(text, t, c, s) ==
  IF t - s.lastUpdate < MIN_DISPLAY_MS("solver") THEN s
  ELSE LET a == [s EXCEPT !.lastUpdate = t, !.caption = text, !.acc = TRUE]
       IN IF c.speak THEN [a EXCEPT !.queue = Append(@, text), !.spoke = TRUE]
                     ELSE a

\* solver page: applyAnswer(text)
applyAnswer(text, t, c, s) ==
  IF t - s.lastUpdate < MIN_DISPLAY_MS("solver") THEN s
  ELSE LET a == [s EXCEPT !.lastUpdate = t, !.caption = text, !.acc = TRUE]
       IN IF c.speak THEN [a EXCEPT !.queue = <<text>>, !.spoke = TRUE]
                     ELSE a

\* the Update Gate of page v
UpdateGate(v, text, t, c, s) ==
  CASE v = "scene" -> applyCaptionScene(text, t, c, s)
    [] v = "mvp" -> applyCaptionMvp(text, t, c, s)
    [] v = "solver" -> applyAnswer(text, t, c, s)

\* ------------------------------------------------------------------------
\* analyzeOnce, up to its first await
\* ------------------------------------------------------------------------

\* controller.abort(): the loop awaiting on controller id gets an AbortError,
\* where fetch honours the signal
Abort(L, id) ==
  [k \in Slots |->
     IF signalHonoured /\ id # 0 /\ L[k].ctl = id /\ L[k].pc \in {"fetch", "json"}
       THEN [L[k] EXCEPT !.aborted = TRUE]
       ELSE L[k]]

\* analyzeOnce without the in-flight test
analyzeOnceNarratorNoGuard(l, c, frame, t, L, inF, rid, ab) ==
  IF ~frame
    THEN [loops |-> [L EXCEPT ![l] = Sleeping(c, t)], inFlight |-> FALSE,
          requestId |-> rid, abortRef |-> ab, sent |-> FALSE, skipped |-> FALSE]
  ELSE [loops |-> [L EXCEPT ![l] = Fetching(c, 0, t)], inFlight |-> TRUE,
        requestId |-> rid, abortRef |-> ab, sent |-> TRUE, skipped |-> FALSE]

\* analyzeOnce returning on a missing frame without the finally block
analyzeOnceNarratorStuck(l, c, frame, t, L, inF, rid, ab) ==
  IF inF
    THEN [loops |-> [L EXCEPT ![l] = Sleeping(c, t)], inFlight |-> inF,
          requestId |-> rid, abortRef |-> ab, sent |-> FALSE, skipped |-> TRUE]
  ELSE IF ~frame
    THEN [loops |-> [L EXCEPT ![l] = Sleeping(c, t)], inFlight |-> TRUE,
          requestId |-> rid, abortRef |-> ab, sent |-> FALSE, skipped |-> FALSE]
  ELSE [loops |-> [L EXCEPT ![l] = Fetching(c, 0, t)], inFlight |-> TRUE,
        requestId |-> rid, abortRef |-> ab, sent |-> TRUE, skipped |-> FALSE]

\* narrator pages: analyzeOnce() of the loop in slot l; frame says whether
\* captureFrame() returned an image
analyzeOnceNarrator(l, c, frame, t, L, inF, rid, ab) ==
  IF inF
    THEN [loops |-> [L EXCEPT ![l] = Sleeping(c, t)], inFlight |-> inF,
          requestId |-> rid, abortRef |-> ab, sent |-> FALSE, skipped |-> TRUE]
  ELSE IF ~frame
    THEN [loops |-> [L EXCEPT ![l] = Sleeping(c, t)], inFlight |-> FALSE,
          requestId |-> rid, abortRef |-> ab, sent |-> FALSE, skipped |-> FALSE]
  ELSE [loops |-> [L EXCEPT ![l] = Fetching(c, 0, t)], inFlight |-> TRUE,
        requestId |-> rid, abortRef |-> ab, sent |-> TRUE, skipped |-> FALSE]

\* solver page: analyzeOnce() of the loop in slot l
analyzeOnceSolver(l, c, frame, t, L, inF, rid, ab) ==
  LET A == Abort(L, ab)
      requestId == rid + 1
  IN [loops |-> [A EXCEPT ![l] = IF frame THEN Fetching(c, requestId, t)
                                          ELSE Sleeping(c, t)],
      inFlight |-> inF, requestId |-> requestId, abortRef |-> requestId,
      sent |-> frame, skipped |-> FALSE]

analyzeOnce(v, l, c, frame, t, L, inF, rid, ab) ==
  IF v \in Narrators
    THEN analyzeOnceNarrator(l, c, frame, t, L, inF, rid, ab)
    ELSE analyzeOnceSolver(l, c, frame, t, L, inF, rid, ab)

\* ------------------------------------------------------------------------
\* Actions
\* ------------------------------------------------------------------------

settingVars == <<speak, accessible, speed, intervalMs, toggles>>

gateVars ==
  <<lastCaptionRef, lastUpdateTimeRef, lastSpeakTimeRef, caption, speechQueue,
    fadeTimers, acceptLog, lastSpoken>>

requestVars == <<inFlightRef, requestIdRef, abortRef, loops>>

Push(log, e) == IF Len(log) < 2 THEN Append(log, e) ELSE <<log[2], e>>

\* text and time of the last acceptance
LastAccepted ==
  IF acceptLog = <<>> THEN [text |-> EmptyText, at |-> 0]
                      ELSE acceptLog[Len(acceptLog)]

\* write back the result g of a gate call with text
SetGate(g, text) ==
  /\ lastCaptionRef' = g.lastCaption
  /\ lastUpdateTimeRef' = g.lastUpdate
  /\ lastSpeakTimeRef' = g.lastSpeak
  /\ caption' = g.caption
  /\ speechQueue' = g.queue
  /\ fadeTimers' = g.timers
  /\ acceptLog' = IF g.acc THEN Push(acceptLog, [text |-> text, at |-> now])
                           ELSE acceptLog
  /\ lastSpoken' = IF g.spoke THEN text ELSE lastSpoken

\* write back the result r of the synchronous part of analyzeOnce
SetRequest(r) ==
  /\ loops' = r.loops
  /\ inFlightRef' = r.inFlight
  /\ requestIdRef' = r.requestId
  /\ abortRef' = r.abortRef

Remove(q, i) == [k \in 1..(Len(q) - 1) |-> IF k < i THEN q[k] ELSE q[k + 1]]

Init ==
  /\ variant \in Variants
  /\ now = StartTime
  /\ runningRef = FALSE
  /\ inFlightRef = FALSE
  /\ lastCaptionRef = EmptyText
  /\ lastUpdateTimeRef = 0
  /\ lastSpeakTimeRef = 0
  /\ requestIdRef = 0
  /\ abortRef = 0
  /\ caption = InitialText(variant)
  /\ isRunning = FALSE
  /\ error = Null
  /\ speak = TRUE
  /\ accessible = FALSE
  /\ speed = "normal"
  /\ intervalMs = DEFAULT_INTERVAL
  /\ cameraOn = FALSE
  /\ pendingStarts = <<>>
  /\ loops = [l \in Slots |-> NoLoop]
  /\ fadeTimers = {}
  /\ speechQueue = <<>>
  /\ toggles = 0
  /\ starts = 0
  /\ signalHonoured \in IF variant = "solver" THEN BOOLEAN ELSE {TRUE}
  /\ fresh = FALSE
  /\ ev = NoEvent
  /\ acceptLog = <<>>
  /\ lastSpoken = EmptyText
  /\ simA = EmptyText
  /\ simB = EmptyText
  /\ simValue = NoScore
  /\ twin = [g |-> GateState, speak |-> speak, accessible |-> accessible,
             log |-> acceptLog]

\* a failure that escapes analyzeOnce ends loop()
afterAnalyzeRethrow(c, t, failed) == IF failed THEN NoLoop ELSE Sleeping(c, t)

\* loop(): what follows await analyzeOnce(); analyzeOnce catches every failure
\* of its cycle, so the loop goes on to await sleep(ms) whether it failed or not
afterAnalyze(c, t, failed) == Sleeping(c, t)

\* the sequence test left out
isLatestAlways(requestId, latest) == TRUE

\* solver page: requestId !== requestIdRef.current is false
isLatest(requestId, latest) == requestId = latest

\* the timers (sleep, setTimeout) whose time has come
TimerDue ==
  \/ \E l \in Slots : loops[l].pc = "sleep" /\ loops[l].wake <= now
  \/ \E tm \in fadeTimers : tm.due <= now

\* time passes; a timer that is due runs before the clock is read again
Tick ==
  /\ now + TickStep <= MaxTime
  /\ ~TimerDue
  /\ now' = now + TickStep
  /\ ev' = NoEvent
  /\ UNCHANGED <<scorerVars, twin, variant, starts, signalHonoured, fresh, runningRef, isRunning,
                 error, cameraOn, pendingStarts>>
  /\ UNCHANGED <<settingVars, gateVars, requestVars>>

\* the Start button: onStart() runs up to await startCamera()
OnStart ==
  /\ ~isRunning
  /\ Len(pendingStarts) < MaxPendingStarts
  /\ starts < MaxStarts
  /\ starts' = starts + 1
  /\ pendingStarts' = Append(pendingStarts, Closure)
  /\ ev' = NoEvent
  /\ UNCHANGED <<scorerVars, twin, variant, signalHonoured, fresh, now, runningRef, isRunning,
                 error, cameraOn>>
  /\ UNCHANGED <<settingVars, gateVars, requestVars>>

\* startCamera() throws: the catch of onStart
StartCameraFails ==
  \E i \in 1..Len(pendingStarts) :
    /\ pendingStarts' = Remove(pendingStarts, i)
    /\ error' = EnvMessage
    /\ ev' = NoEvent
    /\ UNCHANGED <<scorerVars, twin, variant, starts, signalHonoured, fresh, now, runningRef,
                   isRunning, cameraOn>>
    /\ UNCHANGED <<settingVars, gateVars, requestVars>>

\* startCamera() resolves: the rest of onStart, and loop() up to its first await
StartCameraResolves ==
  \E i \in 1..Len(pendingStarts), ready \in BOOLEAN :
    /\ \E l \in Slots : loops[l].pc = "none"
    /\ LET l == CHOOSE k \in Slots :
                  loops[k].pc = "none" /\ \A j \in Slots : loops[j].pc = "none" => k <= j
           r == analyzeOnce(variant, l, pendingStarts[i], ready, now, loops,
                            inFlightRef, requestIdRef, abortRef)
       IN /\ SetRequest(r)
          /\ ev' = [NoEvent EXCEPT !.cycle = TRUE, !.sent = r.sent,
                                   !.skipped = r.skipped]
    /\ pendingStarts' = Remove(pendingStarts, i)
    /\ cameraOn' = TRUE
    /\ runningRef' = TRUE
    /\ isRunning' = TRUE
    /\ caption' = StartText(variant)
    /\ error' = Null
    /\ fresh' = TRUE
    /\ UNCHANGED <<scorerVars, twin, variant, starts, signalHonoured, now, settingVars,
                   lastCaptionRef, lastUpdateTimeRef, lastSpeakTimeRef,
                   speechQueue, fadeTimers, acceptLog, lastSpoken>>

\* onStop with setError(null)
OnStopClearsError ==
  /\ isRunning
  /\ runningRef' = FALSE
  /\ isRunning' = FALSE
  /\ loops' = IF variant = "solver" THEN Abort(loops, abortRef) ELSE loops
  /\ cameraOn' = FALSE
  /\ speechQueue' = <<>>
  /\ caption' = Stopped
  /\ error' = Null
  /\ fresh' = FALSE
  /\ ev' = NoEvent
  /\ UNCHANGED <<scorerVars, twin, variant, starts, signalHonoured, now,
                 pendingStarts, settingVars, inFlightRef, requestIdRef,
                 abortRef, lastCaptionRef, lastUpdateTimeRef, lastSpeakTimeRef,
                 fadeTimers, acceptLog, lastSpoken>>

\* the Stop button: onStop()
OnStop ==
  /\ isRunning
  /\ runningRef' = FALSE
  /\ isRunning' = FALSE
  /\ loops' = IF variant = "solver" THEN Abort(loops, abortRef) ELSE loops
  /\ cameraOn' = FALSE
  /\ speechQueue' = <<>>
  /\ caption' = Stopped
  /\ fresh' = FALSE
  /\ ev' = NoEvent
  /\ UNCHANGED <<scorerVars, twin, variant, starts, signalHonoured, now, error, pendingStarts,
                 settingVars, inFlightRef, requestIdRef, abortRef,
                 lastCaptionRef, lastUpdateTimeRef, lastSpeakTimeRef,
                 fadeTimers, acceptLog, lastSpoken>>

\* the sleep of a loop ends: the while test and the next analyzeOnce
SleepEnds ==
  \E l \in Slots, ready \in BOOLEAN :
    /\ loops[l].pc = "sleep"
    /\ now >= loops[l].wake
    /\ IF ~runningRef
         THEN /\ loops' = [loops EXCEPT ![l] = NoLoop]
              /\ ev' = NoEvent
              /\ UNCHANGED <<inFlightRef, requestIdRef, abortRef>>
         ELSE LET r == analyzeOnce(variant, l, loops[l].c, cameraOn /\ ready, now,
                                   loops, inFlightRef, requestIdRef, abortRef)
              IN /\ SetRequest(r)
                 /\ ev' = [NoEvent EXCEPT !.cycle = TRUE, !.sent = r.sent,
                                          !.skipped = r.skipped]
    /\ UNCHANGED <<scorerVars, twin, variant, starts, signalHonoured, fresh, now, runningRef,
                   isRunning, error, cameraOn, pendingStarts, settingVars,
                   gateVars>>

\* analyzeOnce clearing the flag at the end of try instead of in finally
FinishWithoutFinally(l, failed) ==
  /\ loops' = [loops EXCEPT ![l] = afterAnalyze(loops[l].c, now, failed)]
  /\ inFlightRef' = IF variant \in Narrators /\ ~failed THEN FALSE ELSE inFlightRef
  /\ UNCHANGED <<requestIdRef, abortRef>>

\* the end of analyzeOnce (finally of the narrator pages) and the sleep of loop
Finish(l, failed) ==
  /\ loops' = [loops EXCEPT ![l] = afterAnalyze(loops[l].c, now, failed)]
  /\ inFlightRef' = IF variant \in Narrators THEN FALSE ELSE inFlightRef
  /\ UNCHANGED <<requestIdRef, abortRef>>

\* fetch rejects with a network error
FetchFails ==
  \E l \in Slots :
    /\ loops[l].pc = "fetch" /\ ~loops[l].aborted
    /\ error' = EnvMessage
    /\ Finish(l, TRUE)
    /\ ev' = [NoEvent EXCEPT !.failed = TRUE, !.ctl = loops[l].ctl]
    /\ UNCHANGED <<scorerVars, twin, variant, starts, signalHonoured, fresh, now, runningRef,
                   isRunning, cameraOn, pendingStarts, settingVars, gateVars>>

\* fetch resolves with a response whose status is not ok
FetchNotOk ==
  \E l \in Slots :
    /\ loops[l].pc = "fetch" /\ ~loops[l].aborted
    /\ error' = IF variant \in Narrators THEN StatusErrorText(variant) ELSE error
    /\ Finish(l, TRUE)
    /\ ev' = [NoEvent EXCEPT !.failed = TRUE, !.ctl = loops[l].ctl]
    /\ UNCHANGED <<scorerVars, twin, variant, starts, signalHonoured, fresh, now, runningRef,
                   isRunning, cameraOn, pendingStarts, settingVars, gateVars>>

\* fetch resolves with an ok response: analyzeOnce awaits res.json()
FetchOk ==
  \E l \in Slots :
    /\ loops[l].pc = "fetch" /\ ~loops[l].aborted
    /\ loops' = [loops EXCEPT ![l].pc = "json"]
    /\ ev' = NoEvent
    /\ UNCHANGED <<scorerVars, twin, variant, starts, signalHonoured, fresh, now, runningRef,
                   isRunning, error, cameraOn, pendingStarts, settingVars,
                   gateVars, inFlightRef, requestIdRef, abortRef>>

\* res.json() rejects: the body is not JSON
JsonMalformed ==
  \E l \in Slots :
    /\ loops[l].pc = "json" /\ ~loops[l].aborted
    /\ error' = EnvMessage
    /\ Finish(l, TRUE)
    /\ ev' = [NoEvent EXCEPT !.failed = TRUE, !.ctl = loops[l].ctl]
    /\ UNCHANGED <<scorerVars, twin, variant, starts, signalHonoured, fresh, now, runningRef,
                   isRunning, cameraOn, pendingStarts, settingVars, gateVars>>

\* res.json() resolves with the text (possibly empty) of the description service
JsonResolves ==
  \E l \in Slots, text \in Captions \cup {EmptyText} :
    /\ loops[l].pc = "json" /\ ~loops[l].aborted
    /\ Finish(l, FALSE)
    /\ IF \/ variant = "solver" /\ ~isLatest(loops[l].ctl, requestIdRef)
          \/ text = EmptyText
         THEN /\ ev' = [NoEvent EXCEPT !.resp = TRUE, !.ctl = loops[l].ctl,
                                       !.text = text]
              /\ UNCHANGED <<gateVars, fresh>>
         ELSE LET g == UpdateGate(variant, text, now, loops[l].c, GateState)
              IN /\ SetGate(g, text)
                 /\ fresh' = FALSE
                 /\ ev' = [NoEvent EXCEPT
                             !.resp = TRUE, !.ctl = loops[l].ctl,
                             !.gate = TRUE, !.first = fresh, !.acc = g.acc,
                             !.spoke = g.spoke, !.text = text,
                             !.cut = g.spoke /\ speechQueue # <<>>,
                             !.prevText = LastAccepted.text,
                             !.prevAt = LastAccepted.at]
    /\ UNCHANGED <<scorerVars, twin, variant, starts, signalHonoured, now, runningRef, isRunning,
                   error, cameraOn, pendingStarts, settingVars>>

\* every exception is reported, an AbortError too
catchSolverAll(name, message, err) == message

\* solver page: the catch of analyzeOnce; err is the error shown so far
catchSolver(name, message, err) == IF name # "AbortError" THEN message ELSE err

\* solver page: the await of an aborted request rejects with an AbortError
AbortRejects ==
  \E l \in Slots :
    /\ loops[l].pc \in {"fetch", "json"} /\ loops[l].aborted
    /\ error' = catchSolver("AbortError", AbortMessage, error)
    /\ Finish(l, FALSE)
    /\ ev' = [NoEvent EXCEPT !.ctl = loops[l].ctl, !.aborted = TRUE]
    /\ UNCHANGED <<scorerVars, twin, variant, starts, signalHonoured, fresh, now, runningRef,
                   isRunning, cameraOn, pendingStarts, settingVars,
                   gateVars>>

\* scene page: a setTimeout callback of applyCaption runs
FadeTimerFires ==
  \E tm \in fadeTimers :
    /\ now >= tm.due
    /\ LET g == fadeCallback(tm, now, [GateState EXCEPT !.timers = @ \ {tm}])
       IN /\ SetGate(g, tm.text)
          /\ ev' = [NoEvent EXCEPT !.spoke = g.spoke, !.text = tm.text,
                                   !.called = tm.c.accessible,
                                   !.cut = g.spoke /\ speechQueue # <<>>]
    /\ UNCHANGED <<scorerVars, twin, variant, starts, signalHonoured, fresh, now, runningRef,
                   isRunning, error, cameraOn, pendingStarts, settingVars,
                   requestVars>>

\* the utterance being played ends
UtteranceEnds ==
  /\ speechQueue # <<>>
  /\ speechQueue' = Tail(speechQueue)
  /\ ev' = NoEvent
  /\ UNCHANGED <<scorerVars, twin, variant, starts, signalHonoured, fresh, now, runningRef,
                 isRunning, error, cameraOn, pendingStarts, settingVars,
                 requestVars, lastCaptionRef, lastUpdateTimeRef,
                 lastSpeakTimeRef, caption, fadeTimers, acceptLog, lastSpoken>>

\* the "Speak captions" / "Speak answers" checkbox (mvp and solver pages)
SetSpeak ==
  /\ variant # "scene"
  /\ toggles < MaxToggles
  /\ toggles' = toggles + 1
  /\ speak' = ~speak
  /\ ev' = NoEvent
  /\ UNCHANGED <<scorerVars, twin, variant, starts, signalHonoured, fresh, now, runningRef,
                 isRunning, error, cameraOn, pendingStarts, accessible, speed,
                 intervalMs, gateVars, requestVars>>

\* the "Accessibility narration" checkbox (scene page)
SetAccessible ==
  /\ variant = "scene"
  /\ toggles < MaxToggles
  /\ toggles' = toggles + 1
  /\ accessible' = ~accessible
  /\ ev' = NoEvent
  /\ UNCHANGED <<scorerVars, twin, variant, starts, signalHonoured, fresh, now, runningRef,
                 isRunning, error, cameraOn, pendingStarts, speak, speed,
                 intervalMs, gateVars, requestVars>>

Next ==
  \/ Tick
  \/ OnStart
  \/ StartCameraFails
  \/ StartCameraResolves
  \/ OnStop
  \/ SleepEnds
  \/ FetchFails
  \/ FetchNotOk
  \/ FetchOk
  \/ JsonMalformed
  \/ JsonResolves
  \/ AbortRejects
  \/ FadeTimerFires
  \/ UtteranceEnds
  \/ SetSpeak
  \/ SetAccessible

Spec == Init /\ [][Next]_vars

\* the event loop runs a timer that is due, and the clock goes on
FairSpec ==
  /\ Spec
  /\ WF_vars(Tick)
  /\ WF_vars(SleepEnds)
  /\ WF_vars(FadeTimerFires)

\* ------------------------------------------------------------------------
\* The Update Gate on its own: texts arrive at arbitrary times
\* ------------------------------------------------------------------------

\* time passes between two arrivals
GateTick ==
  /\ now + TickStep <= StartTime + GateHorizon
  /\ \A tm \in fadeTimers : tm.due > now
  /\ now' = now + TickStep
  /\ ev' = NoEvent
  /\ UNCHANGED <<scorerVars, twin, variant, starts, signalHonoured, fresh, runningRef, isRunning,
                 error, cameraOn, pendingStarts>>
  /\ UNCHANGED <<settingVars, gateVars, requestVars>>

\* if (caption) applyCaption(caption) / if (data?.answer) applyAnswer(data.answer)
GateArrives ==
  \E text \in GateTexts :
    LET g == UpdateGate(variant, text, now, Closure, GateState)
    IN /\ SetGate(g, text)
       /\ fresh' = FALSE
       /\ ev' = [NoEvent EXCEPT
                   !.resp = TRUE, !.gate = TRUE, !.first = fresh, !.acc = g.acc,
                   !.spoke = g.spoke, !.text = text,
                   !.cut = g.spoke /\ speechQueue # <<>>,
                   !.prevText = LastAccepted.text, !.prevAt = LastAccepted.at]
       /\ UNCHANGED <<scorerVars, twin, variant, starts, signalHonoured, now, runningRef,
                      isRunning, error, cameraOn, pendingStarts, settingVars,
                      requestVars>>

GateInit == Init /\ signalHonoured

GateNext ==
  \/ GateTick
  \/ GateArrives
  \/ FadeTimerFires
  \/ SetSpeak
  \/ SetAccessible

SpecGate == GateInit /\ [][GateNext]_vars

\* ------------------------------------------------------------------------
\* Two instances of a page fed the same captions at the same times: the
\* instance of the variables above keeps its speech settings, the instance in
\* twin has its speech checkboxes operated at will
\* ------------------------------------------------------------------------

\* the values of the render of the second instance
TwinClosure ==
  [speak |-> twin.speak, accessible |-> twin.accessible, ms |-> Closure.ms]

\* a pending setTimeout callback without the closure it carries
Shown(tm) == [text |-> tm.text, due |-> tm.due]

\* the checkbox of the second instance: setSpeak / setAccessible
TwinSetSpeech ==
  /\ twin' = IF variant = "scene"
               THEN [twin EXCEPT !.accessible = ~@]
               ELSE [twin EXCEPT !.speak = ~@]
  /\ ev' = NoEvent
  /\ UNCHANGED <<scorerVars, variant, starts, signalHonoured, fresh, now,
                 runningRef, isRunning, error, cameraOn, pendingStarts,
                 settingVars, gateVars, requestVars>>

\* the same text reaches the Update Gate of both instances
TwinArrives ==
  \E text \in Captions :
    LET g == UpdateGate(variant, text, now, Closure, GateState)
        h == UpdateGate(variant, text, now, TwinClosure,
                        [twin.g EXCEPT !.acc = FALSE, !.spoke = FALSE])
    IN /\ SetGate(g, text)
       /\ twin' = [twin EXCEPT
                     !.g = h,
                     !.log = IF h.acc THEN Push(@, [text |-> text, at |-> now])
                                      ELSE @]
       /\ fresh' = FALSE
       /\ ev' = [NoEvent EXCEPT
                   !.resp = TRUE, !.gate = TRUE, !.first = fresh, !.acc = g.acc,
                   !.spoke = g.spoke, !.text = text,
                   !.cut = g.spoke /\ speechQueue # <<>>,
                   !.prevText = LastAccepted.text, !.prevAt = LastAccepted.at]
       /\ UNCHANGED <<scorerVars, variant, starts, signalHonoured, now,
                      runningRef, isRunning, error, cameraOn, pendingStarts,
                      settingVars, requestVars>>

\* scene page: a setTimeout callback runs in the first instance
TwinFadeFires ==
  \E tm \in fadeTimers :
    /\ now >= tm.due
    /\ LET g == fadeCallback(tm, now, [GateState EXCEPT !.timers = @ \ {tm}])
       IN /\ SetGate(g, tm.text)
          /\ ev' = [NoEvent EXCEPT !.spoke = g.spoke, !.text = tm.text,
                                   !.called = tm.c.accessible,
                                   !.cut = g.spoke /\ speechQueue # <<>>]
    /\ UNCHANGED <<scorerVars, twin, variant, starts, signalHonoured, fresh,
                   now, runningRef, isRunning, error, cameraOn, pendingStarts,
                   settingVars, requestVars>>

\* scene page: a setTimeout callback runs in the second instance
TwinFadeFiresTwin ==
  \E tm \in twin.g.timers :
    /\ now >= tm.due
    /\ twin' = [twin EXCEPT
                  !.g = fadeCallback(tm, now,
                          [twin.g EXCEPT !.timers = @ \ {tm}, !.acc = FALSE,
                                         !.spoke = FALSE])]
    /\ ev' = NoEvent
    /\ UNCHANGED <<scorerVars, variant, starts, signalHonoured, fresh, now,
                   runningRef, isRunning, error, cameraOn, pendingStarts,
                   settingVars, gateVars, requestVars>>

\* time passes once the callbacks that are due have run in both instances
TwinTick ==
  /\ now + TickStep <= StartTime + TwinHorizon
  /\ \A tm \in fadeTimers \cup twin.g.timers : tm.due > now
  /\ now' = now + TickStep
  /\ ev' = NoEvent
  /\ UNCHANGED <<scorerVars, twin, variant, starts, signalHonoured, fresh,
                 runningRef, isRunning, error, cameraOn, pendingStarts>>
  /\ UNCHANGED <<settingVars, gateVars, requestVars>>

TwinNext ==
  \/ TwinTick
  \/ TwinArrives
  \/ TwinFadeFires
  \/ TwinFadeFiresTwin
  \/ TwinSetSpeech

SpecTwin == GateInit /\ [][TwinNext]_vars

\* ------------------------------------------------------------------------
\* The Similarity Scorer on its own: similarity is called on any two strings
\* of up to MaxTextLen characters
\* ------------------------------------------------------------------------

\* a letter, a letter of the other case, a capital, white space, punctuation
TextChars == {"a", "b", "A", " ", "!"}

\* the state of the page, which the scorer neither reads nor writes
pageVars ==
  <<variant, now, runningRef, inFlightRef, lastCaptionRef, lastUpdateTimeRef,
    lastSpeakTimeRef, requestIdRef, abortRef, caption, isRunning, error, speak,
    accessible, speed, intervalMs, cameraOn, pendingStarts, loops, fadeTimers,
    speechQueue, toggles, starts, signalHonoured, fresh, ev, acceptLog,
    lastSpoken, twin>>

\* the argument a grows by one character
ExtendA ==
  \E ch \in TextChars :
    /\ Len(simA) < MaxTextLen
    /\ simA' = Append(simA, ch)
    /\ simValue' = NoScore
    /\ UNCHANGED <<simB, pageVars>>

\* the argument b grows by one character
ExtendB ==
  \E ch \in TextChars :
    /\ Len(simB) < MaxTextLen
    /\ simB' = Append(simB, ch)
    /\ simValue' = NoScore
    /\ UNCHANGED <<simA, pageVars>>

\* similarity(a, b), similarity(b, a) and similarity(a, a) are called
Score ==
  /\ ~simValue.done
  /\ simValue' = [done |-> TRUE, ab |-> similarity(simA, simB),
                  ba |-> similarity(simB, simA), aa |-> similarity(simA, simA)]
  /\ UNCHANGED <<simA, simB, pageVars>>

ScorerInit == GateInit /\ variant = "scene"

ScorerNext == ExtendA \/ ExtendB \/ Score

SpecScorer == ScorerInit /\ [][ScorerNext]_vars

\* ------------------------------------------------------------------------
\* Properties
\* ------------------------------------------------------------------------

\* the minimum display window has passed since the last acceptance before
\* the gate call recorded in ev
WindowPassed == now - ev.prevAt >= MIN_DISPLAY_MS(variant)

\* the text of the gate call recorded in ev is a near-duplicate of the last
\* accepted text
NearDuplicate == ExceedsIgnore(similarity(ev.text, ev.prevText))

\* C1: on every page, two successive acceptances of the Update Gate are at
\* least MIN_DISPLAY_MS apart, and a caption arriving less than MIN_DISPLAY_MS
\* after the last acceptance is not accepted, whatever its text.
MinDisplayHolds ==
  /\ Len(acceptLog) = 2 =>
       acceptLog[2].at - acceptLog[1].at >= MIN_DISPLAY_MS(variant)
  /\ ev.gate /\ ev.prevAt # 0 /\ ~WindowPassed => ~ev.acc

\* a dissimilar caption is turned away by the window after two acceptances
MinDisplayWitness ==
  /\ Len(acceptLog) = 2
  /\ ev.gate /\ ~ev.acc /\ ~WindowPassed /\ ~NearDuplicate

\* C2: on the narrator pages there is never more than one request outstanding,
\* and a call of analyzeOnce that finds a request unresolved sends nothing.
SingleFlight ==
  variant \in Narrators =>
    /\ Cardinality(Outstanding) <= 1
    /\ Outstanding # {} => inFlightRef
    /\ ev.skipped => ~ev.sent

\* a second loop (after stop and start) skipped its cycle while the request of
\* the first loop is unresolved
SingleFlightWitness ==
  /\ variant \in Narrators
  /\ Cardinality(ActiveLoops) = 2
  /\ Cardinality(Outstanding) = 1
  /\ ev.cycle /\ ev.skipped

\* the requests the solver page still awaits, by sequence number
PendingIds == {loops[l].ctl : l \in {k \in Slots : loops[k].pc \in {"fetch", "json"}}}

\* C3: on the solver page every analyzeOnce call takes a sequence number larger
\* than all earlier ones, and a response whose number is not the latest issued
\* when its body arrives is not applied: it never reaches applyAnswer and
\* leaves the displayed answer as it was.
DiscardStale ==
  variant = "solver" =>
    /\ \A l \in Slots : loops[l].ctl <= requestIdRef
    /\ \A l, k \in Slots :
         l # k /\ loops[l].ctl # 0 => loops[l].ctl # loops[k].ctl
    /\ ev.sent => requestIdRef \in PendingIds
    /\ ev.resp /\ ev.ctl # requestIdRef => ~ev.gate /\ ~ev.acc /\ ~ev.spoke

\* the body of request N arrived with a text that the window would let through,
\* after request N+1 had been issued
DiscardStaleWitness ==
  /\ variant = "solver"
  /\ ev.resp /\ ev.ctl < requestIdRef /\ ev.text # EmptyText
  /\ now - lastUpdateTimeRef >= MIN_DISPLAY_MS(variant)
  /\ caption # ev.text

\* no session is running and none is being started
NoSession == ~runningRef /\ pendingStarts = <<>>

\* C4: on the narrator pages, between onStop and the next onStart nothing
\* changes lastCaptionRef, lastUpdateTimeRef or the displayed caption, and no
\* utterance is started: the result of a request that was in flight at onStop
\* (and a timer of an earlier acceptance) is discarded.
StopDiscards ==
  [][(variant \in Narrators /\ NoSession /\ NoSession')
       => /\ lastCaptionRef' = lastCaptionRef
          /\ lastUpdateTimeRef' = lastUpdateTimeRef
          /\ caption' = caption
          /\ ~ev'.spoke]_vars

\* C5: every onStart begins the session with the Stabilization State reset:
\* last accepted caption empty, last accepted and last spoken time zero.
SessionReset ==
  [][(~runningRef /\ runningRef')
       => /\ lastCaptionRef' = EmptyText
          /\ lastUpdateTimeRef' = 0
          /\ lastSpeakTimeRef' = 0]_vars

\* C6: the first caption that reaches the Update Gate in a session is accepted
\* and stored as the last accepted caption.
FirstAccepted ==
  ev.gate /\ ev.first => ev.acc /\ LastAccepted.text = ev.text

\* C8: on every page a cycle whose remote call failed (network error, status
\* not ok, body not JSON) leaves an error string for the UI.
FailureReported == ev.failed => error # Null

\* C10: at most one loop() invocation is alive at any time.
NoParallelLoops == Cardinality(ActiveLoops) <= 1

HorizonReached == now + TickStep > MaxTime

\* C9: a loop() invocation ends only when runningRef is false, and while the
\* session runs a failed cycle is followed by another cycle (within the
\* observed time).
LoopSurvivesFailure ==
  /\ [][\A l \in Slots :
          loops[l].pc # "none" /\ loops'[l].pc = "none" => ~runningRef]_vars
  /\ (ev.failed /\ runningRef) ~> (ev.cycle \/ ~runningRef \/ HorizonReached)

\* the only loop of the first session sends a request while the error of an
\* earlier cycle is on display
LoopSurvivesWitness ==
  /\ starts = 1 /\ runningRef
  /\ Cardinality(ActiveLoops) = 1
  /\ ev.cycle /\ ev.sent
  /\ error # Null

\* C11: on the scene page every utterance starts at least MIN_SPEAK_GAP after
\* the one before it (whose start time lastSpeakTimeRef holds), and a call of
\* speakCaption less than MIN_SPEAK_GAP after that start speaks nothing,
\* cancels nothing and leaves lastSpeakTimeRef as it was.
SpeakGapHolds ==
  [][variant = "scene" =>
       /\ ev'.spoke =>
            /\ now' - lastSpeakTimeRef >= MIN_SPEAK_GAP
            /\ lastSpeakTimeRef' = now'
       /\ ev'.called /\ now' - lastSpeakTimeRef < MIN_SPEAK_GAP =>
            /\ ~ev'.spoke
            /\ speechQueue' = speechQueue
            /\ lastSpeakTimeRef' = lastSpeakTimeRef
            /\ lastSpoken' = lastSpoken]_vars

\* speakCaption was called while the utterance started less than MIN_SPEAK_GAP
\* earlier is still playing, and left it playing
SpeakGapWitness ==
  /\ variant = "scene"
  /\ ev.called /\ ~ev.spoke
  /\ lastSpeakTimeRef # 0
  /\ now - lastSpeakTimeRef < MIN_SPEAK_GAP
  /\ speechQueue = <<lastSpoken>>
  /\ ev.text # lastSpoken

\* C12: no utterance is started for a text whose similarity to the text of the
\* utterance started before it is greater than the threshold (SIMILARITY_IGNORE,
\* the only threshold of the code); in particular the same text is never spoken
\* in two successive utterances.
NoRepeatSpeech ==
  [][ev'.spoke =>
       /\ ~ExceedsIgnore(similarity(ev'.text, lastSpoken))
       /\ ev'.text # lastSpoken]_vars

\* C13: on every page the speech output never holds more than one utterance,
\* the one it holds is the one started last, and an utterance that starts
\* replaces whatever was playing or queued.
Preemption ==
  /\ Len(speechQueue) <= 1
  /\ speechQueue # <<>> => speechQueue = <<lastSpoken>>
  /\ ev.spoke => speechQueue = <<ev.text>> /\ lastSpoken = ev.text

\* an utterance started while another text was still being spoken
PreemptionWitness ==
  /\ ev.spoke /\ ev.cut
  /\ speechQueue = <<ev.text>>
  /\ ev.text # ev.prevText
  /\ Len(acceptLog) = 2

\* the callbacks of both instances that are due have run
Settled == \A tm \in fadeTimers \cup twin.g.timers : tm.due > now

\* C14: two instances of a page that receive the same captions at the same
\* times and differ only in how speak / accessible are set accept the same
\* captions at the same times, hold the same last accepted caption and time,
\* have the same callbacks pending and show the same caption.
SpeechDoesNotInterfere ==
  /\ twin.log = acceptLog
  /\ twin.g.lastCaption = lastCaptionRef
  /\ twin.g.lastUpdate = lastUpdateTimeRef
  /\ Settled =>
       /\ twin.g.caption = caption
       /\ {Shown(tm) : tm \in twin.g.timers} = {Shown(tm) : tm \in fadeTimers}

\* after two acceptances one instance is speaking the caption on display and
\* the other, its speech switched off or on in between, is not
SpeechDoesNotInterfereWitness ==
  /\ Len(acceptLog) = 2
  /\ Settled
  /\ caption = acceptLog[2].text
  /\ twin.g.queue # speechQueue
  /\ <<caption>> \in {twin.g.queue, speechQueue}

\* C15: on the pages with a speak checkbox (mvp, solver) no utterance is
\* started while the checkbox is off.
SpeakKnobOff == variant # "scene" /\ ev.spoke => speak

\* the characters normalizeText keeps as parts of words
WordChars == Range(LowerChars) \cup Range(UpperChars) \cup DigitChars

\* the string has a letter or a digit
HasWord(str) == \E k \in 1..Len(str) : str[k] \in WordChars

\* C16 as stated: similarity(a, a) is 1 for every non-empty string a, and
\* similarity("", x) is 0 for every string x.
SelfSimilarity ==
  simValue.done =>
    /\ simA # EmptyText => simValue.aa.num = simValue.aa.den
    /\ simA = EmptyText => simValue.ab.num = 0 /\ simValue.ba.num = 0

\* C16 amended: similarity(a, a) is 1 for every string a that has a letter or
\* a digit and 0 for every other string (empty, white space, punctuation);
\* similarity("", x) and similarity(x, "") are 0 for every string x.
SelfSimilarityWords ==
  simValue.done =>
    /\ HasWord(simA) => simValue.aa.num = simValue.aa.den /\ simValue.aa.den > 0
    /\ ~HasWord(simA) => simValue.aa.num = 0
    /\ simA = EmptyText => simValue.ab.num = 0 /\ simValue.ba.num = 0

\* a non-empty string without a letter or digit scores 0 against itself
SelfSimilarityWitness ==
  /\ simValue.done
  /\ simA # EmptyText /\ ~HasWord(simA)
  /\ simValue.aa.num = 0

\* C17: for all strings a and b, similarity(a, b) = similarity(b, a), the
\* value lies in [0, 1], it is |A \cap B| / (|A| + |B| - |A \cap B|) over the
\* sets A, B of the words (letters and digits, lower case, duplicates
\* collapsed) of a and b, which is |A \cap B| / |A \cup B|, and it is 0 when
\* one of the sets is empty.
SimilaritySymmetricBounded ==
  simValue.done =>
    LET A == Words(simA)
        B == Words(simB)
        v == simValue.ab
    IN /\ v = simValue.ba
       /\ v.den > 0 /\ 0 <= v.num /\ v.num <= v.den
       /\ A = {} \/ B = {} => v.num = 0
       /\ A # {} /\ B # {} =>
            /\ v.num = Cardinality(A \cap B)
            /\ v.den = Cardinality(A) + Cardinality(B) - Cardinality(A \cap B)
            /\ v.den = Cardinality(A \cup B)
       /\ \A w \in A \cup B : w # <<>> /\ \A k \in 1..Len(w) : w[k] \in {"a", "b"}

\* two strings that share one of their words: a value strictly between 0 and
\* 1, from a string with a capital and a repeated word
SimilarityValueWitness ==
  /\ simValue.done
  /\ 0 < simValue.ab.num /\ simValue.ab.num < simValue.ab.den
  /\ simA = <<"A", " ", "a">>
  /\ Len(simB) = MaxTextLen

\* C18: the cycles of a loop start exactly one interval apart however long the
\* remote call takes: when a cycle that sent a request ends, the next cycle of
\* the loop is due one interval after the time that cycle began.
FixedCadence ==
  [][\A l \in Slots :
       loops[l].pc \in {"fetch", "json"} /\ loops'[l].pc = "sleep" =>
         loops'[l].wake = loops[l].began + loops[l].c.ms]_vars

\* C19: on the solver page the rejection of an aborted request (aborted by a
\* newer cycle or by onStop) leaves the error string, the displayed answer and
\* lastUpdateTimeRef as they were and speaks nothing, and onStop leaves no
\* request in flight where fetch honours the AbortSignal.
CancelIsNoError ==
  [][variant = "solver" =>
       /\ ev'.aborted =>
            /\ error' = error
            /\ caption' = caption
            /\ lastUpdateTimeRef' = lastUpdateTimeRef
            /\ ~ev'.spoke
       /\ signalHonoured /\ runningRef /\ ~runningRef' =>
            Outstanding' = {}]_vars

\* the request that onStop aborted has rejected: no error is shown and the
\* answer still reads "Stopped."
CancelWitness ==
  /\ variant = "solver"
  /\ ev.aborted /\ ev.ctl = requestIdRef
  /\ ~runningRef
  /\ error = Null
  /\ caption = Stopped

\* the loops awaiting the headers or the body of a request
Awaiting == {l \in Slots : loops[l].pc \in {"fetch", "json"}}

\* the handler recorded in ev ran a cycle in which captureFrame returned null
NoFrameCycle == ev.cycle /\ ~ev.sent /\ ~ev.skipped

\* C20: a cycle whose frame source yields no frame issues no request, sets no
\* error (onStart, when the cycle is the first of a session, clears the error
\* and shows the start text), leaves lastCaptionRef, lastUpdateTimeRef,
\* lastSpeakTimeRef, the accepted captions, the pending callbacks and the
\* speech output as they were, and on the narrator pages leaves inFlightRef
\* false.
NoFrameNoOp ==
  [][NoFrameCycle' =>
       /\ Awaiting' \subseteq Awaiting
       /\ error' \in {error, Null}
       /\ caption' \in {caption, StartText(variant)}
       /\ lastCaptionRef' = lastCaptionRef
       /\ lastUpdateTimeRef' = lastUpdateTimeRef
       /\ lastSpeakTimeRef' = lastSpeakTimeRef
       /\ acceptLog' = acceptLog
       /\ fadeTimers' = fadeTimers
       /\ speechQueue' = speechQueue
       /\ variant \in Narrators => ~inFlightRef']_vars

\* a narrator page with an error on display ran a cycle without a frame: the
\* error stays, nothing is in flight and the loop sleeps until its next cycle
NoFrameWitness ==
  /\ variant \in Narrators
  /\ NoFrameCycle
  /\ runningRef /\ error # Null
  /\ ~inFlightRef /\ Awaiting = {}
  /\ \E l \in Slots : loops[l].pc = "sleep" /\ loops[l].wake = now + loops[l].c.ms

\* the scenario of C21: the gate of the mvp page, its state as constructed,
\* called at StartTime, 5000 ms later and 11000 ms later
ScenarioStart ==
  [lastCaption |-> EmptyText, lastUpdate |-> 0, lastSpeak |-> 0,
   caption |-> InitialText("mvp"), queue |-> <<>>, timers |-> {},
   acc |-> FALSE, spoke |-> FALSE]

ScenarioClosure == [speak |-> TRUE, accessible |-> FALSE, ms |-> DEFAULT_INTERVAL]

ScenarioFirst ==
  applyCaptionMvp(DogRug, StartTime, ScenarioClosure, ScenarioStart)

ScenarioSecond ==
  applyCaptionMvp(DogRugCalmly, StartTime + 5000, ScenarioClosure,
                  [ScenarioFirst EXCEPT !.acc = FALSE, !.spoke = FALSE])

ScenarioThird ==
  applyCaptionMvp(DogRugCalmly, StartTime + 11000, ScenarioClosure,
                  ScenarioSecond)

\* a step in which applyCaption of a narrator page rejected changes nothing
RejectChangesNothing ==
  variant \in Narrators /\ ev'.gate /\ ~ev'.acc =>
    /\ lastCaptionRef' = lastCaptionRef
    /\ lastUpdateTimeRef' = lastUpdateTimeRef
    /\ acceptLog' = acceptLog
    /\ caption' = caption
    /\ fadeTimers' = fadeTimers
    /\ speechQueue' = speechQueue
    /\ ~ev'.spoke

\* C21: when applyCaption of a narrator page rejects a caption, lastCaptionRef,
\* lastUpdateTimeRef, the displayed caption, the pending callbacks and the
\* speech output stay as they were and nothing is spoken, so that
\* lastCaptionRef is always the last accepted caption; with MIN_DISPLAY_MS
\* 5500, "a dog sits on a rug" is accepted, "a dog sits on a rug calmly"
\* 5000 ms later is rejected and the same text 11000 ms later is accepted.
RejectIsNoOp ==
  /\ [][RejectChangesNothing]_vars
  /\ [](variant \in Narrators =>
          lastCaptionRef = LastAccepted.text /\ lastUpdateTimeRef = LastAccepted.at)
  /\ [](ScenarioFirst.acc /\ ScenarioFirst.caption = DogRug)
  /\ [](~ScenarioSecond.acc /\ ~ScenarioSecond.spoke)
  /\ [](ScenarioSecond = [ScenarioFirst EXCEPT !.acc = FALSE, !.spoke = FALSE])
  /\ [](ScenarioThird.acc /\ ScenarioThird.caption = DogRugCalmly)
  /\ [](ScenarioThird.lastUpdate = StartTime + 11000)

\* the mvp page 5000 ms after it accepted "a dog sits on a rug": "a dog sits
\* on a rug calmly", not a near-duplicate, has just been rejected by the window
RejectWitness ==
  /\ variant = "mvp"
  /\ ev.gate /\ ~ev.acc /\ ev.text = DogRugCalmly
  /\ ~NearDuplicate /\ ~WindowPassed
  /\ now = StartTime + 5000
  /\ acceptLog = <<[text |-> DogRug, at |-> StartTime]>>
  /\ lastCaptionRef = DogRug /\ caption = DogRug

\* the same page 11000 ms after that acceptance: the same text is accepted
RejectThenAcceptWitness ==
  /\ variant = "mvp"
  /\ ev.gate /\ ev.acc /\ ev.text = DogRugCalmly
  /\ now = StartTime + 11000
  /\ acceptLog = <<[text |-> DogRug, at |-> StartTime],
                   [text |-> DogRugCalmly, at |-> StartTime + 11000]>>

\* C22: on the narrator pages inFlightRef is true exactly when one analyzeOnce
\* invocation is between setting the flag and its finally block (no two ever
\* are); every exit of that invocation (answer, empty answer, no frame, status
\* not ok, exception) leaves the flag false, and an invocation that returned
\* at the in-flight test leaves it true.
FlagAccurate ==
  variant \in Narrators =>
    /\ Cardinality(Awaiting) <= 1
    /\ inFlightRef <=> Cardinality(Awaiting) = 1
    /\ ev.failed \/ ev.resp \/ NoFrameCycle => ~inFlightRef
    /\ ev.skipped => inFlightRef

\* with a second loop alive that skips its cycles, the request of the first
\* failed and the flag is false again
FlagAccurateWitness ==
  /\ variant \in Narrators
  /\ Cardinality(ActiveLoops) = 2
  /\ ev.failed
  /\ ~inFlightRef /\ Awaiting = {}

\* C23: on every page a text is handed to the speech output only if the
\* Update Gate accepted it: when an utterance starts its text is the last
\* accepted caption (accepted in the same call on the mvp and solver pages, by
\* the call that set the timer on the scene page), a call of the gate that
\* rejects starts no utterance, and no timer carries a text that was not
\* accepted.
SpeechFromAccepted ==
  /\ ev.spoke => LastAccepted.text = ev.text /\ lastSpoken = ev.text
  /\ ev.spoke /\ variant # "scene" => ev.acc /\ LastAccepted.at = now
  /\ ev.spoke /\ variant = "scene" => ev.called /\ LastAccepted.at < now
  /\ ev.gate /\ ~ev.acc => ~ev.spoke
  /\ \A tm \in fadeTimers : tm.text = LastAccepted.text

\* scene page: the timer of the second acceptance ran and spoke the caption
\* that was accepted when the timer was set
SpeechFromAcceptedWitness ==
  /\ variant = "scene"
  /\ ev.spoke /\ ev.called
  /\ Len(acceptLog) = 2
  /\ acceptLog[2].text = ev.text
  /\ acceptLog[1].text # ev.text
  /\ speechQueue = <<ev.text>>

\* a step in which the error string goes away is the success path of onStart
ErrorClearedByStartOnly ==
  error # Null /\ error' = Null =>
    /\ Len(pendingStarts') < Len(pendingStarts)
    /\ runningRef' /\ isRunning'
    /\ caption' = StartText(variant)

\* onStop keeps the error string
StopKeepsError == isRunning /\ ~isRunning' => error' = error

\* a cycle of a loop (its start after a sleep, a response, a failure, an
\* abort) keeps an error string on display or replaces it by another
CycleKeepsError ==
  /\ error # Null
  /\ pendingStarts' = pendingStarts
  /\ ev'.cycle \/ ev'.resp \/ ev'.failed \/ ev'.aborted
  => error' # Null

\* C24: on every page an error string, once set, is cleared by no later cycle,
\* not even by one whose answer is accepted and displayed, and not by onStop;
\* it goes away only when onStart succeeds.
ErrorSticky ==
  /\ [][ErrorClearedByStartOnly]_vars
  /\ [][StopKeepsError]_vars
  /\ [][CycleKeepsError]_vars

\* mvp page, first session: the answer of a later cycle has been accepted and
\* is on display next to the error of an earlier cycle
ErrorStickyWitness ==
  /\ variant = "mvp"
  /\ starts = 1 /\ runningRef
  /\ ev.gate /\ ev.acc /\ caption = ev.text
  /\ error # Null

====
